---- MODULE Spec2Model ----
(***************************************************************************)
(* Research orchestration engine of event-deep-research:                   *)
(*   - the supervisor graph        (src/src/graph.py)                      *)
(*   - the research_events graph   (src/src/research_events/               *)
(*                                  research_events_graph.py)              *)
(*   - the merge_events graph      (src/src/research_events/merge_events/  *)
(*                                  merge_events_graph.py)                 *)
(* A text is a sequence of characters.  Data objects (the accumulator) are *)
(* functions from field names to texts; Python's None is the record None.  *)
(***************************************************************************)
EXTENDS Integers, Sequences, FiniteSets, TLC

(***************************************************************************)
(* Bounds of the model                                                     *)
(***************************************************************************)
\* largest number of tool invocations the supervisor model issues in one
\* session, all decisions together
MaxToolCalls == 3
\* largest number of text chunks the chunker cuts one crawl result into
MaxChunks == 1
\* largest number of ResearchEventsTool calls the supervisor model issues in
\* one session
MaxResearchCalls == 2
\* largest number of URLs the ranking step selects in one session, all
\* executors together
MaxUrlsPerSession == 2
MaxCalls == 3
MaxInstances == 2
\* largest number of chunks the chunker answers with
MaxChunkerAnswer == 3

(***************************************************************************)
(* Program constants                                                       *)
(***************************************************************************)
\* config.max_tool_iterations, the iteration cap N
MAX_TOOL_CALL_ITERATIONS == 3
\* "A list of the two best URLs."
MaxSelectedUrls == 2
\* split_events keeps chunks[0:20]
SplitChunkCap == 20
\* configurable.max_chunks
max_chunks == 2

None == [none |-> TRUE]

\* fields of the data object of the (default) research type; the operations
\* below treat every field alike, the model carries two of them
Categories == {"early", "career"}

\* the characters texts are made of
Whitespace == {" ", "\n"}

\* texts the text-generation capability answers with
LlmTexts == {<< >>, <<"a">>}

\* texts the crawler answers with
CrawlTexts == {<<" ">>, <<"x">>}

Domains == {"d1", "d2"}
Urls == {[domain |-> "d1", path |-> "p"], [domain |-> "d2", path |-> "p"]}

Range(s) == {s[i] : i \in DOMAIN s}

(***************************************************************************)
(* str.strip(), str.join()                                                 *)
(***************************************************************************)
RECURSIVE LStrip(_)
LStrip(t) == IF t = << >> THEN << >>
             ELSE IF Head(t) \in Whitespace THEN LStrip(Tail(t)) ELSE t

RECURSIVE RStrip(_)
RStrip(t) == IF t = << >> THEN << >>
             ELSE IF t[Len(t)] \in Whitespace
                  THEN RStrip(SubSeq(t, 1, Len(t) - 1)) ELSE t

Strip(t) == RStrip(LStrip(t))

RECURSIVE Join(_, _)
Join(sep, ts) == IF ts = << >> THEN << >>
                 ELSE IF Len(ts) = 1 THEN ts[1]
                 ELSE ts[1] \o sep \o Join(sep, Tail(ts))

\* Python truthiness of a data object: a pydantic model instance is truthy,
\* None is falsy
Truthy(obj) == obj # None

\* getattr(obj, field, "")
GetAttr(obj, f) == IF f \in DOMAIN obj THEN obj[f] ELSE << >>

get_initial_data_structure == [c \in Categories |-> << >>]

(***************************************************************************)
(* graph.py: merge_data_objects                                            *)
(***************************************************************************)
\* the separator of the join, "\n\n"
FieldSeparator == <<"\n", "\n">>

\* the stripped value of every object that exists, the blank ones too
RECURSIVE field_values_all(_, _)
field_values_all(data_objects, f) ==
    IF data_objects = << >> THEN << >>
    ELSE IF data_objects[1] # None
         THEN <<Strip(GetAttr(data_objects[1], f))>>
              \o field_values_all(Tail(data_objects), f)
         ELSE field_values_all(Tail(data_objects), f)

\* field_values of one field: the stripped value of every object that
\* exists and whose value is non-blank, in list order
RECURSIVE field_values(_, _)
field_values(data_objects, f) ==
    IF data_objects = << >> THEN << >>
    ELSE LET obj == Head(data_objects)
             value == IF Truthy(obj) THEN GetAttr(obj, f) ELSE << >>
         IN  IF Truthy(obj) /\ value # << >> /\ Strip(value) # << >>
             THEN <<Strip(value)>> \o field_values(Tail(data_objects), f)
             ELSE field_values(Tail(data_objects), f)

\* the values of the first object alone
merge_data_objects_first_only(data_objects) ==
    IF data_objects = << >> THEN get_initial_data_structure
    ELSE IF ~Truthy(data_objects[1]) THEN get_initial_data_structure
    ELSE [f \in DOMAIN data_objects[1] |->
             Join(FieldSeparator, field_values(<<data_objects[1]>>, f))]

merge_data_objects(data_objects) ==
    IF data_objects = << >> THEN get_initial_data_structure
    ELSE IF ~Truthy(data_objects[1]) THEN get_initial_data_structure
    ELSE [f \in DOMAIN data_objects[1] |->
             Join(FieldSeparator, field_values(data_objects, f))]

(***************************************************************************)
(* merge_events_graph.py, the nodes of the merge sub-graph as functions of *)
(* their state and of the answers of the external calls                    *)
(***************************************************************************)
\* an external call that raises
Raise == [raise |-> TRUE]

\* the test of split_events without the strip
split_events_ends_unstripped(extracted_data) == extracted_data = << >>

\* split_events: TRUE when the sub-graph ends at once, with no chunking
split_events_ends(extracted_data) == Strip(extracted_data) = << >>

\* the cut of split_events alone, chunks[:max_chunks] left out
KeptChunks_split_cap(nchunks) ==
    LET n1 == IF nchunks > SplitChunkCap THEN SplitChunkCap ELSE nchunks
    IN  [i \in 1..n1 |-> i]

\* split_events keeps chunks[0:20]; filter_chunks keeps chunks[:max_chunks].
\* A chunk is named by its index in the chunker's answer.
KeptChunks(nchunks) ==
    LET n1 == IF nchunks > SplitChunkCap THEN SplitChunkCap ELSE nchunks
        n2 == IF n1 > max_chunks THEN max_chunks ELSE n1
    IN  [i \in 1..n2 |-> i]

\* every chunk taken for relevant
relevant_chunks_all(chunks, has_events) == chunks

\* filter_chunks: the relevant chunks, in order
relevant_chunks(chunks, has_events) ==
    SelectSeq(chunks, LAMBDA ch : has_events[ch])

\* filter_chunks: the text_chunks handed to extraction
\* (update={"text_chunks": chunks, ...})
filter_chunks_update(chunks, has_events) == chunks

\* the arguments of the first tool call taken whatever its name
ParseReply_any_tool(reply) ==
    [c \in Categories |-> GetAttr(reply.args, c)]

\* extract_and_categorize_chunk: the parse of one reply.  A reply is
\* [tool |-> name of the first tool call or "none", args |-> its arguments]
ParseReply(reply) ==
    IF reply.tool = "RelevantEventsCategorized"
    THEN [c \in Categories |-> GetAttr(reply.args, c)]
    ELSE [c \in Categories |-> << >>]

\* EventService.merge_categorized_events: the fold of the categorized
\* chunks, per category newline-joined, empties skipped
RECURSIVE NonEmptyOf(_, _)
NonEmptyOf(results, c) ==
    IF results = << >> THEN << >>
    ELSE IF Head(results)[c] = << >> THEN NonEmptyOf(Tail(results), c)
    ELSE <<Head(results)[c]>> \o NonEmptyOf(Tail(results), c)

merge_categorized_events(results) ==
    [c \in Categories |-> Join(<<"\n">>, NonEmptyOf(results, c))]

\* ensure_categories_with_events: coerces its argument to the data model
ensure_categories_with_events(x) ==
    IF Truthy(x) THEN [c \in Categories |-> GetAttr(x, c)] ELSE x

\* data_type.__name__ == "CategoriesWithEvents": the type of a data object
\* is known by its fields
IsCategoriesWithEvents(obj) == DOMAIN obj = Categories

\* the fields with new text only
FieldsToMerge_new_only(existing_data, new_data) ==
    {f \in DOMAIN existing_data : Strip(GetAttr(new_data, f)) # << >>}

\* combine_new_and_original_data: the fields for which a combine call is
\* made
FieldsToMerge(existing_data, new_data) ==
    {f \in DOMAIN existing_data :
        Strip(GetAttr(existing_data, f)) # << >>
        \/ Strip(GetAttr(new_data, f)) # << >>}

\* the output built from the combined fields alone, the loop that adds the
\* fields that were not combined left out
combine_new_and_original_data_merged_only(existing_data_raw, new_data_raw, content) ==
    IF ~Truthy(existing_data_raw)
    THEN IF ~Truthy(new_data_raw) THEN None ELSE new_data_raw
    ELSE LET new_data == IF Truthy(new_data_raw) THEN new_data_raw
                         ELSE existing_data_raw
         IN  IF \A f \in DOMAIN existing_data_raw :
                   Strip(GetAttr(new_data, f)) = << >>
             THEN existing_data_raw
             ELSE [f \in FieldsToMerge(existing_data_raw, new_data) |->
                      content[f]]

\* combine_new_and_original_data; content[f] is the answer of the combine
\* call of field f
combine_new_and_original_data(existing_data_raw, new_data_raw, content) ==
    IF ~Truthy(existing_data_raw)
    THEN IF ~Truthy(new_data_raw) THEN None ELSE new_data_raw
    ELSE LET existing_data == IF IsCategoriesWithEvents(existing_data_raw)
                              THEN ensure_categories_with_events(existing_data_raw)
                              ELSE existing_data_raw
             new_data == IF ~Truthy(new_data_raw) THEN existing_data
                         ELSE IF IsCategoriesWithEvents(existing_data_raw)
                         THEN ensure_categories_with_events(new_data_raw)
                         ELSE new_data_raw
             has_new_data == \E f \in DOMAIN existing_data :
                                Strip(GetAttr(new_data, f)) # << >>
         IN  IF ~has_new_data THEN existing_data
             ELSE [f \in DOMAIN existing_data |->
                      IF f \in FieldsToMerge(existing_data, new_data)
                      THEN content[f]
                      ELSE GetAttr(existing_data, f)]

\* combine_new_and_original_data: the fields a combine call is made for,
\* none when the node returns before the calls
CombineCalls(existing_data_raw, new_data_raw) ==
    IF ~Truthy(existing_data_raw) THEN {}
    ELSE LET existing_data == IF IsCategoriesWithEvents(existing_data_raw)
                              THEN ensure_categories_with_events(existing_data_raw)
                              ELSE existing_data_raw
             new_data == IF ~Truthy(new_data_raw) THEN existing_data
                         ELSE IF IsCategoriesWithEvents(existing_data_raw)
                         THEN ensure_categories_with_events(new_data_raw)
                         ELSE new_data_raw
         IN  IF \A f \in DOMAIN existing_data :
                   Strip(GetAttr(new_data, f)) = << >>
             THEN {}
             ELSE FieldsToMerge(existing_data, new_data)

\* a gather that takes the failed calls for empty answers
gather_responses_failed_skipped(content, failing) ==
    [f \in DOMAIN content |-> IF f \in failing THEN << >> ELSE content[f]]

\* responses = await asyncio.gather(*tasks): the answers of the combine
\* calls, or the exception of a call in failing
gather_responses(content, failing) ==
    IF failing # {} THEN Raise ELSE content

\* the chunk the loop takes when all chunks before it are categorized
next_chunk_first(chunks, categorized_chunks) == chunks[1]

\* chunk = chunks[len(categorized_chunks)]
next_chunk(chunks, categorized_chunks) == chunks[Len(categorized_chunks) + 1]

\* replies of the extractor: no tool call, a first tool call IrrelevantChunk
\* (whatever arguments the model wrote with it), or a first tool call
\* RelevantEventsCategorized
ExtractReplies ==
    {[tool |-> "none", args |-> [c \in Categories |-> << >>]],
     [tool |-> "IrrelevantChunk", args |-> [c \in Categories |-> <<"a">>]]}
    \cup {[tool |-> "RelevantEventsCategorized", args |-> a] :
             a \in [Categories -> LlmTexts]}

\* the text_chunks filter_chunks can hand to extraction, over all answers
\* of the chunker and of the relevance filter with a relevant chunk
HandedChunks ==
    UNION {{filter_chunks_update(KeptChunks(n), has_events) :
               has_events \in {h \in [1..Len(KeptChunks(n)) -> BOOLEAN] :
                                  relevant_chunks(KeptChunks(n), h) # << >>}}
           : n \in 1..MaxChunks}

\* the values of extracted_data_categorized, over all replies of the
\* extractor: extract_and_categorize_chunk once per handed chunk, then
\* merge_categorizations
CategorizedResults ==
    UNION {{merge_categorized_events(
                [i \in DOMAIN text_chunks |-> ParseReply(replies[i])]) :
               replies \in [DOMAIN text_chunks -> ExtractReplies]}
           : text_chunks \in HandedChunks}

\* merge_events_app.ainvoke: every result the sub-graph can return for
\* (existing_data, extracted_data), over all answers of the chunker, the
\* relevance filter, the extractor and the combine calls; Raise when one of
\* those calls raises.  The chunker answers with at least one chunk, and
\* when no chunk is relevant filter_chunks ends with the state as it is.
MergeResults(existing_data, extracted_data) ==
    IF split_events_ends(extracted_data) THEN {existing_data}
    ELSE {Raise, existing_data}
         \cup {combine_new_and_original_data(existing_data, categorized, content) :
                  categorized \in CategorizedResults,
                  content \in [Categories -> LlmTexts]}

(***************************************************************************)
(* services/url_service.py: URLService                                     *)
(***************************************************************************)
extract_domain(url) == url.domain

\* update_url_list: drops the head URL and records its domain; returns new
\* lists, the lists passed in are not changed
update_url_list(urls, domains) ==
    IF urls = << >> THEN <<urls, domains>>
    ELSE <<Tail(urls), Append(domains, extract_domain(Head(urls)))>>

(***************************************************************************)
(* search_providers: the providers, SearchProviderRegistry and the         *)
(* registrations of the package's initialization.  A registry is           *)
(* [providers |-> the registered names in insertion order,                 *)
(*  instances |-> the provider object registered under each name,         *)
(*  default |-> the name of the default provider, or NoName]               *)
(***************************************************************************)
\* Optional[str] None
NoName == "None"

EnvVars == {"TAVILY_API_KEY", "BRAVE_API_KEY", "SEARXNG_URL"}

get_required_env_vars(name) ==
    CASE name = "tavily" -> {"TAVILY_API_KEY"}
      [] name = "brave" -> {"BRAVE_API_KEY"}
      [] name = "searxng" -> {"SEARXNG_URL"}
      [] OTHER -> {}

\* SearchProvider.validate_config: is_valid, for the set environ of
\* environment variables that are set
validate_config(name, environ) == get_required_env_vars(name) \subseteq environ

EmptyRegistry == [providers |-> << >>, instances |-> << >>, default |-> NoName]

\* a provider object: its name and which object it is
Provider(name, instance) == [name |-> name, instance |-> instance]

\* the provider object the package constructs for a name
PackageProvider(name) == Provider(name, 1)

\* a register without the test for a registered name: the object of a
\* registered name is overwritten, and the default set
register_overwrite(reg, provider, set_as_default) ==
    LET new_default == IF set_as_default \/ reg.default = NoName
                       THEN provider.name ELSE reg.default
    IN  IF provider.name \in Range(reg.providers)
        THEN [providers |-> reg.providers,
              instances |-> [k \in DOMAIN reg.providers |->
                                IF reg.providers[k] = provider.name
                                THEN provider.instance ELSE reg.instances[k]],
              default |-> new_default]
        ELSE [providers |-> Append(reg.providers, provider.name),
              instances |-> Append(reg.instances, provider.instance),
              default |-> new_default]

\* SearchProviderRegistry.register; Raise for a name already registered
register(reg, provider, set_as_default) ==
    IF provider.name \in Range(reg.providers) THEN Raise
    ELSE [providers |-> Append(reg.providers, provider.name),
          instances |-> Append(reg.instances, provider.instance),
          default |-> IF set_as_default \/ reg.default = NoName
                      THEN provider.name ELSE reg.default]

\* SearchProviderRegistry.set_default; Raise for an unknown name
set_default(reg, name) ==
    IF name \notin Range(reg.providers) THEN Raise
    ELSE [reg EXCEPT !.default = name]

\* the providers removed, the default left as it is
clear_providers_only(reg) ==
    [reg EXCEPT !.providers = << >>, !.instances = << >>]

\* SearchProviderRegistry.clear: no provider and no default
clear(reg) == EmptyRegistry

\* the names of every registered provider, no validation
list_configured_all(reg, environ) == reg.providers

\* SearchProviderRegistry.list_configured
list_configured(reg, environ) ==
    SelectSeq(reg.providers, LAMBDA name : validate_config(name, environ))

\* SearchProviderRegistry.get: [found |-> FALSE] when it raises
get(reg, name) ==
    LET wanted == IF name = NoName THEN reg.default ELSE name
    IN  IF wanted = NoName \/ wanted \notin Range(reg.providers)
        THEN [found |-> FALSE, name |-> wanted, instance |-> 0]
        ELSE [found |-> TRUE, name |-> wanted,
              instance |-> reg.instances[CHOOSE k \in DOMAIN reg.providers :
                                            reg.providers[k] = wanted]]

\* the end of the package's initialization: the first configured provider
\* becomes the default when the default is not configured
auto_select(reg, environ) ==
    LET configured == list_configured(reg, environ)
    IN  IF configured # << >> /\ reg.default # NoName
           /\ ~validate_config(get(reg, reg.default).name, environ)
        THEN set_default(reg, configured[1])
        ELSE reg

\* the providers in the order the package registers them; tavily is
\* registered with set_as_default
RegistrationOrder == <<"tavily", "brave", "duckduckgo", "searxng">>

\* the registry after an initialization in which no registration raises
RECURSIVE RegisterFrom(_, _)
RegisterFrom(reg, k) ==
    IF k > Len(RegistrationOrder) THEN reg
    ELSE RegisterFrom(register(reg, PackageProvider(RegistrationOrder[k]),
                               RegistrationOrder[k] = "tavily"), k + 1)

Initialized(environ) == auto_select(RegisterFrom(EmptyRegistry, 1), environ)

(***************************************************************************)
(* research_types: ResearchTypeRegistry.  The registry is                  *)
(* [types |-> the registered research type objects, [name, instance], in   *)
(*            the order of their registration]                             *)
(***************************************************************************)
TypeNames == {"biography", "company", "market", "people", "topic"}

EmptyTypes == [types |-> << >>]

\* ResearchTypeRegistry.register; Raise for a name already registered
register_type(reg, research_type) ==
    IF \E k \in DOMAIN reg.types : reg.types[k].name = research_type.name
    THEN Raise
    ELSE [types |-> Append(reg.types, research_type)]

\* ResearchTypeRegistry.get: [found |-> FALSE] when it raises
get_type(reg, name) ==
    IF \E k \in DOMAIN reg.types : reg.types[k].name = name
    THEN [found |-> TRUE, name |-> name,
          instance |-> reg.types[CHOOSE k \in DOMAIN reg.types :
                                    reg.types[k].name = name].instance]
    ELSE [found |-> FALSE, name |-> name, instance |-> 0]

\* the research types the package registers, in its order
TypeRegistrationOrder == <<"biography", "company", "market", "people", "topic">>

RegisteredTypes ==
    [types |-> [k \in DOMAIN TypeRegistrationOrder |->
                   PackageProvider(TypeRegistrationOrder[k])]]

(***************************************************************************)
(* The state                                                               *)
(***************************************************************************)
VARIABLES
    env,                   \* the environment variables that are set
    registry,              \* SearchProviderRegistry: _providers, _default_provider
    init_pc,               \* position of the initialization of search_providers
    search_provider,       \* configuration.search_provider of the session
    research_types,        \* ResearchTypeRegistry._types
    last_call,             \* history: the last call of a client of the registries
    merge,                 \* MergeEventsState of a run of merge_events_app
    merge_log,             \* history: the calls of that run
    node,                  \* the node of the supervisor graph that runs next
    existing_data,         \* SupervisorState: the accumulator, or None
    used_domains,          \* SupervisorState: list of domains
    data_summary,          \* SupervisorState: the gap summary
    conversation_history,  \* SupervisorState: list of messages
    iteration_count,       \* SupervisorState
    structured_output,     \* SupervisorState
    tasks,                 \* the executor tasks of the batch in flight
    pre,                   \* history: session state when the turn's tool step began
    joined,                \* history: the settled tasks of the turn's batch
    supervisor_calls,      \* history: number of runs of supervisor_node
    ever_crawled,          \* history: the domains a crawl was issued for
    urls_selected,         \* history: number of URLs selected so far
    research_calls,        \* history: number of research calls issued so far
    tool_calls_issued,     \* history: number of tool calls issued so far
    raised_by              \* history: the node whose exception ended the session

registry_vars == <<env, registry, init_pc, search_provider, research_types,
                   last_call>>

merge_vars == <<merge, merge_log>>

vars == <<env, registry, init_pc, search_provider, research_types, last_call,
          merge, merge_log, node, existing_data, used_domains, data_summary,
          conversation_history, iteration_count, structured_output, tasks,
          pre, joined, supervisor_calls, ever_crawled, urls_selected,
          research_calls, tool_calls_issued, raised_by>>

session == <<existing_data, used_domains, data_summary,
             conversation_history, iteration_count, structured_output>>

ToolNames == {"ResearchEventsTool", "FinishResearchTool", "think_tool"}

\* the tool calls of a decision; the id of a call is its turn and position
ToolCall(turn, k, name) ==
    [name |-> name, id |-> <<turn, k>>,
     args |-> IF name = "ResearchEventsTool" THEN [research_question |-> "q"]
              ELSE IF name = "think_tool" THEN [reflection |-> "r"]
              ELSE [none |-> TRUE]]

\* the decisions of at most max tool calls
Decisions(turn, max) ==
    UNION {{[k \in 1..n |-> ToolCall(turn, k, names[k])] :
               names \in [1..n -> ToolNames]} : n \in 0..max}

research_tool_calls(tool_calls) ==
    SelectSeq(tool_calls, LAMBDA tc : tc.name = "ResearchEventsTool")

AIMessage(tool_calls) == [type |-> "ai", tool_calls |-> tool_calls]

\* the new value replaces the history
override_reducer_replace(current_value, new_value) == new_value

\* state.py override_reducer, the reducer of conversation_history: every
\* update the graph makes is a list of messages, never an override
\* dictionary, so the update is added to the current value
override_reducer(current_value, new_value) == current_value \o new_value

ToolMessage(content, tool_call_id, name) ==
    [type |-> "tool", content |-> content, tool_call_id |-> tool_call_id,
     name |-> name]

\* lists of URLs the ranking step selects
UrlLists == UNION {[1..n -> Urls] : n \in 0..MaxSelectedUrls}

\* all orders of a set, for list(set(...))
Perms(S) == {p \in [1..Cardinality(S) -> S] : Range(p) = S}

\* inputs of a session: the defaults, and a session that resumes
SessionInputs ==
    {[existing_data |-> None, used_domains |-> << >>],
     [existing_data |-> [c \in Categories |->
                            IF c = "early" THEN <<"a", "\n">> ELSE << >>],
      used_domains |-> <<"d1">>]}

\* the configurations of a session: every variable set and the default
\* provider, or none set and brave selected
SessionConfigs ==
    {[env |-> EnvVars, search_provider |-> NoName],
     [env |-> {}, search_provider |-> "brave"]}

\* no run of merge_events_app on its own
NoMerge == [pc |-> "none"]

NoMergeLog == [input |-> None]

\* no call of a client yet
NoCall == [n |-> 0, op |-> "none", name |-> NoName, instance |-> 0,
           set_as_default |-> FALSE, raised |-> FALSE]

InitSession ==
    /\ node = "supervisor"
    /\ \E input \in SessionInputs :
          /\ existing_data = input.existing_data
          /\ used_domains = input.used_domains
    /\ data_summary = ""
    /\ conversation_history = << >>
    /\ iteration_count = 0
    /\ structured_output = None
    /\ tasks = << >>
    /\ pre = [existing_data |-> existing_data, used_domains |-> used_domains,
              data_summary |-> "", conversation_history |-> << >>]
    /\ joined = << >>
    /\ supervisor_calls = 0
    /\ ever_crawled = {}
    /\ urls_selected = 0
    /\ research_calls = 0
    /\ raised_by = ""
    /\ tool_calls_issued = 0

Init ==
    /\ \E c \in SessionConfigs :
          /\ env = c.env
          /\ search_provider = c.search_provider
          /\ registry = Initialized(c.env)
    /\ init_pc = "done"
    /\ research_types = RegisteredTypes
    /\ last_call = NoCall
    /\ merge = NoMerge
    /\ merge_log = NoMergeLog
    /\ InitSession

(***************************************************************************)
(* graph.py: supervisor_node                                               *)
(***************************************************************************)
\* the count written back as it was read
next_iteration_count_same(count) == count

\* "iteration_count": state.get("iteration_count", 0) + 1
next_iteration_count(count) == count + 1

supervisor_node ==
    /\ node = "supervisor"
    /\ UNCHANGED <<registry_vars, merge_vars>>
    /\ supervisor_calls' = supervisor_calls + 1
    /\ UNCHANGED <<existing_data, used_domains, data_summary,
                   structured_output, tasks, pre, joined, ever_crawled,
                   urls_selected>>
    /\ \/ \* tools_model.ainvoke raises
          /\ node' = "raised"
          /\ raised_by' = "supervisor"
          /\ UNCHANGED <<conversation_history, iteration_count, research_calls,
                         tool_calls_issued>>
       \/ \E d \in Decisions(iteration_count + 1,
                            MaxToolCalls - tool_calls_issued) :
          /\ tool_calls_issued' = tool_calls_issued + Len(d)
          /\ research_calls + Len(research_tool_calls(d)) <= MaxResearchCalls
          /\ research_calls' = research_calls + Len(research_tool_calls(d))
          /\ conversation_history' =
                 override_reducer(conversation_history, <<AIMessage(d)>>)
          /\ iteration_count' = next_iteration_count(iteration_count)
          /\ node' = "supervisor_tools"
          /\ UNCHANGED raised_by

(***************************************************************************)
(* graph.py: supervisor_tools_node                                         *)
(***************************************************************************)
last_message == conversation_history[Len(conversation_history)]

\* the cap compared with > instead of >=
exceeded_allowed_iterations_late(count) == count > MAX_TOOL_CALL_ITERATIONS

exceeded_allowed_iterations(count) == count >= MAX_TOOL_CALL_ITERATIONS

HasTool(tool_calls, name) ==
    \E k \in DOMAIN tool_calls : tool_calls[k].name = name

\* FinishResearchTool honoured only as the first tool call
RoutesToStructure_first(tool_calls, count) ==
    \/ tool_calls = << >>
    \/ exceeded_allowed_iterations(count)
    \/ tool_calls[1].name = "FinishResearchTool"

\* the early returns of the node: no tool call, the cap, or a
\* FinishResearchTool call met in the loop over the tool calls
RoutesToStructure(tool_calls, count) ==
    \/ tool_calls = << >>
    \/ exceeded_allowed_iterations(count)
    \/ HasTool(tool_calls, "FinishResearchTool")

\* the tool messages of the think_tool calls, in order
RECURSIVE think_messages(_)
think_messages(tool_calls) ==
    IF tool_calls = << >> THEN << >>
    ELSE LET tc == Head(tool_calls)
         IN  IF tc.name = "think_tool"
             THEN <<ToolMessage(tc.args.reflection, tc.id, tc.name)>>
                  \o think_messages(Tail(tool_calls))
             ELSE think_messages(Tail(tool_calls))

\* the reflections met in the loop written with the early return
early_return_messages_reflections(tool_calls) == think_messages(tool_calls)

\* Command(goto="structure_output") carries no update: the messages the
\* loop has collected before the return are not written
early_return_messages(tool_calls) == << >>

\* the node always starting from the initial structure
LocalExistingData_initial == get_initial_data_structure

\* existing_data of the node: the state's, or the initial structure
LocalExistingData ==
    IF existing_data = None THEN get_initial_data_structure ELSE existing_data

NewTask(tc) ==
    [id |-> tc.id, pc |-> "created",
     research_question |-> tc.args.research_question,
     existing_data |-> None, used_domains |-> << >>, urls |-> << >>,
     extracted_data |-> << >>, crawled |-> {}]

supervisor_tools_node ==
    /\ node = "supervisor_tools"
    /\ UNCHANGED <<registry_vars, merge_vars>>
    /\ pre' = [existing_data |-> existing_data, used_domains |-> used_domains,
               data_summary |-> data_summary,
               conversation_history |-> conversation_history]
    /\ joined' = << >>
    /\ UNCHANGED <<iteration_count, structured_output, supervisor_calls,
                   ever_crawled, urls_selected, research_calls,
                   tool_calls_issued, raised_by>>
    /\ LET tool_calls == last_message.tool_calls
           research == research_tool_calls(tool_calls)
       IN  IF RoutesToStructure(tool_calls, iteration_count)
           THEN /\ node' = "structure_output"
                /\ conversation_history' =
                       override_reducer(conversation_history,
                                        early_return_messages(tool_calls))
                /\ UNCHANGED <<existing_data, used_domains, data_summary,
                               tasks>>
           ELSE IF research = << >>
           THEN /\ node' = "supervisor"
                /\ existing_data' = LocalExistingData
                /\ conversation_history' =
                       override_reducer(conversation_history,
                                        think_messages(tool_calls))
                /\ UNCHANGED <<used_domains, data_summary, tasks>>
           ELSE /\ node' = "gather"
                /\ tasks' = [i \in DOMAIN research |-> NewTask(research[i])]
                /\ UNCHANGED <<existing_data, used_domains, data_summary,
                               conversation_history>>

(***************************************************************************)
(* graph.py: execute_research, and the nodes of the research_events graph  *)
(* it runs (research_events_graph.py)                                      *)
(***************************************************************************)
Settled(t) == t.pc \in {"END", "failed"}

\* every gathered result taken for a result, the exceptions too
Succeeded_any(t) == t.pc \in {"END", "failed"}

Succeeded(t) == t.pc = "END"

\* the input chained from the executor before, once that one has started
ExecutorInput_chained(i) ==
    IF i > 1 /\ tasks[i - 1].pc \notin {"created", "failed"}
    THEN [existing_data |-> tasks[i - 1].existing_data,
          used_domains |-> tasks[i - 1].used_domains]
    ELSE [existing_data |-> LocalExistingData, used_domains |-> used_domains]

\* the input execute_research passes to research_events_app.ainvoke
ExecutorInput(i) ==
    [existing_data |-> LocalExistingData, used_domains |-> used_domains]

\* a task that raised: gather keeps its exception, nothing of its state
Failed(t) ==
    [t EXCEPT !.pc = "failed", !.existing_data = None, !.used_domains = << >>,
              !.urls = << >>, !.extracted_data = << >>]

\* an end that returns the initial values instead of the state's
Ended_initial(t) ==
    [t EXCEPT !.pc = "END", !.urls = << >>, !.extracted_data = << >>,
              !.existing_data = get_initial_data_structure,
              !.used_domains = << >>]

\* a task that ended: the output schema keeps existing_data and used_domains
Ended(t) == [t EXCEPT !.pc = "END", !.urls = << >>, !.extracted_data = << >>]

TaskFrame == UNCHANGED <<env, registry, init_pc, search_provider,
                         research_types, last_call, merge, merge_log, node,
                         existing_data, used_domains, data_summary,
                         conversation_history, iteration_count,
                         structured_output, pre, joined, supervisor_calls,
                         research_calls, tool_calls_issued, raised_by>>

execute_research(i) ==
    /\ node = "gather"
    /\ i \in DOMAIN tasks
    /\ tasks[i].pc = "created"
    /\ tasks' = [tasks EXCEPT ![i] =
                   [@ EXCEPT !.pc = "url_finder",
                             !.existing_data = ExecutorInput(i).existing_data,
                             !.used_domains = ExecutorInput(i).used_domains]]
    /\ UNCHANGED <<ever_crawled, urls_selected>>
    /\ TaskFrame

\* brave and searxng: search raises SearchProviderError when the
\* environment variable it reads is not set
SearchRaisesUnconfigured(name, environ) ==
    name \in {"brave", "searxng"} /\ ~validate_config(name, environ)

url_finder(i) ==
    /\ node = "gather"
    /\ i \in DOMAIN tasks
    /\ tasks[i].pc = "url_finder"
    /\ UNCHANGED ever_crawled
    /\ TaskFrame
    /\ IF \/ tasks[i].research_question = ""
          \/ ~get(registry, search_provider).found
          \/ SearchRaisesUnconfigured(get(registry, search_provider).name, env)
       THEN /\ tasks' = [tasks EXCEPT ![i] = Failed(@)]
            /\ UNCHANGED urls_selected
       ELSE \/ \* search_provider.search or the ranking call raises
               /\ tasks' = [tasks EXCEPT ![i] = Failed(@)]
               /\ UNCHANGED urls_selected
            \/ \* no search results
               /\ tasks' = [tasks EXCEPT ![i] = Ended(@)]
               /\ UNCHANGED urls_selected
            \/ \E selected_urls \in UrlLists :
                   /\ urls_selected + Len(selected_urls) <= MaxUrlsPerSession
                   /\ urls_selected' = urls_selected + Len(selected_urls)
                   /\ tasks' = [tasks EXCEPT ![i] =
                                   [@ EXCEPT !.pc = "should_process_url_router",
                                             !.urls = selected_urls]]

\* the router without its check of used_domains
DomainUsed_never(url, domains) == FALSE

\* should_process_url_router: domain in used_domains
DomainUsed(url, domains) == extract_domain(url) \in Range(domains)

\* every URL dropped with the head
remaining_urls_none(urls) == << >>

\* should_process_url_router: remaining_urls = urls[1:]
remaining_urls(urls) == Tail(urls)

should_process_url_router(i) ==
    /\ node = "gather"
    /\ i \in DOMAIN tasks
    /\ tasks[i].pc = "should_process_url_router"
    /\ UNCHANGED <<ever_crawled, urls_selected>>
    /\ TaskFrame
    /\ LET urls == tasks[i].urls
       IN  IF urls # << >>
           THEN IF DomainUsed(urls[1], tasks[i].used_domains)
                THEN tasks' = [tasks EXCEPT ![i].urls = remaining_urls(urls)]
                ELSE tasks' = [tasks EXCEPT ![i].pc = "crawl_url"]
           ELSE tasks' = [tasks EXCEPT ![i] = Ended(@)]

crawl_url(i) ==
    /\ node = "gather"
    /\ i \in DOMAIN tasks
    /\ tasks[i].pc = "crawl_url"
    /\ UNCHANGED urls_selected
    /\ TaskFrame
    /\ IF tasks[i].research_question = ""
       THEN /\ tasks' = [tasks EXCEPT ![i] = Failed(@)]
            /\ UNCHANGED ever_crawled
       ELSE LET d == extract_domain(tasks[i].urls[1])
            IN  /\ ever_crawled' = ever_crawled \cup {d}
                /\ \/ \* url_crawler_app.ainvoke raises
                      tasks' = [tasks EXCEPT ![i] =
                                  Failed([@ EXCEPT !.crawled = @ \cup {d}])]
                   \/ \E text \in CrawlTexts :
                          tasks' = [tasks EXCEPT ![i] =
                                      [@ EXCEPT !.pc = "merge_events_and_update",
                                                !.extracted_data = text,
                                                !.crawled = @ \cup {d}]]

\* the domain of the head URL recorded, the head not dropped
updateUrlList_head_kept(state) ==
    <<state.urls, Append(state.used_domains, extract_domain(Head(state.urls)))>>

\* updateUrlList: URLService.update_url_list on the state's lists
updateUrlList(state) == update_url_list(state.urls, state.used_domains)

merge_events_and_update(i) ==
    /\ node = "gather"
    /\ i \in DOMAIN tasks
    /\ tasks[i].pc = "merge_events_and_update"
    /\ UNCHANGED <<ever_crawled, urls_selected>>
    /\ TaskFrame
    /\ \E result \in MergeResults(tasks[i].existing_data, tasks[i].extracted_data) :
          IF result = Raise
          THEN tasks' = [tasks EXCEPT ![i] = Failed(@)]
          ELSE LET updated == updateUrlList(tasks[i])
               IN  tasks' = [tasks EXCEPT ![i] =
                               [@ EXCEPT !.pc = "should_process_url_router",
                                         !.existing_data = result,
                                         !.urls = updated[1],
                                         !.used_domains = updated[2]]]

(***************************************************************************)
(* graph.py: supervisor_tools_node after asyncio.gather                    *)
(***************************************************************************)
\* asyncio.gather without return_exceptions: returns at the first exception
GatherReturns_first_exception(ts) ==
    \/ \E i \in DOMAIN ts : ts[i].pc = "failed"
    \/ \A i \in DOMAIN ts : ts[i].pc \in {"END", "failed"}

\* asyncio.gather(..., return_exceptions=True) returns when every task has
\* returned or raised
GatherReturns(ts) == \A i \in DOMAIN ts : Settled(ts[i])

\* the loop over research_results: the data objects, the extension of
\* used_domains and the tool messages of the results that are no exception
\* the loop without its skip of the exceptions
RECURSIVE all_data_objects_unfiltered(_)
all_data_objects_unfiltered(results) ==
    IF results = << >> THEN << >>
    ELSE <<Head(results).existing_data>>
         \o all_data_objects_unfiltered(Tail(results))

RECURSIVE all_data_objects(_)
all_data_objects(results) ==
    IF results = << >> THEN << >>
    ELSE IF Succeeded(Head(results))
         THEN <<Head(results).existing_data>> \o all_data_objects(Tail(results))
         ELSE all_data_objects(Tail(results))

\* the list rebuilt from the results alone, the state's list dropped
RECURSIVE extended_domains_fresh(_, _)
extended_domains_fresh(domains, results) ==
    IF results = << >> THEN << >>
    ELSE IF results[1].pc = "END"
         THEN results[1].used_domains
              \o extended_domains_fresh(domains, Tail(results))
         ELSE extended_domains_fresh(domains, Tail(results))

RECURSIVE extended_domains(_, _)
extended_domains(domains, results) ==
    IF results = << >> THEN domains
    ELSE IF Succeeded(Head(results))
         THEN extended_domains(domains \o Head(results).used_domains, Tail(results))
         ELSE extended_domains(domains, Tail(results))

\* the list kept as it is, duplicates too
deduplicated_kept(domains) == {domains}

\* used_domains = list(set(used_domains)): the lists it can return, the
\* order of a set is not determined
deduplicated(domains) == Perms(Range(domains))

RECURSIVE research_messages(_)
research_messages(results) ==
    IF results = << >> THEN << >>
    ELSE IF Succeeded(Head(results))
         THEN <<ToolMessage("Called ResearchEventsTool and returned research data",
                            Head(results).id, "ResearchEventsTool")>>
              \o research_messages(Tail(results))
         ELSE research_messages(Tail(results))

supervisor_tools_join ==
    /\ node = "gather"
    /\ UNCHANGED <<registry_vars, merge_vars>>
    /\ GatherReturns(tasks)
    /\ joined' = tasks
    /\ tasks' = << >>
    /\ UNCHANGED <<iteration_count, structured_output, pre, supervisor_calls,
                   ever_crawled, urls_selected, research_calls,
                   tool_calls_issued>>
    /\ \/ \* the summarizer call raises; used_domains was extended in place
          /\ node' = "raised"
          /\ raised_by' = "supervisor_tools"
          /\ used_domains' = extended_domains(used_domains, tasks)
          /\ UNCHANGED <<existing_data, data_summary, conversation_history>>
       \/ /\ node' = "supervisor"
          /\ existing_data' = merge_data_objects(all_data_objects(tasks))
          /\ conversation_history' =
                 override_reducer(conversation_history,
                                  research_messages(tasks))
          /\ used_domains' \in
                 deduplicated(extended_domains(used_domains, tasks))
          /\ data_summary' = "summary"
          /\ UNCHANGED raised_by

(***************************************************************************)
(* graph.py: structure_output                                              *)
(***************************************************************************)
\* the answer of research_type.structure_output
Structured == [structured_output |-> "events"]

\* the workflow continues with the supervisor after the structuring
AfterStructureOutput_supervisor == "supervisor"

\* the workflow has no edge out of structure_output: the graph ends after it
AfterStructureOutput == "END"

structure_output ==
    /\ node = "structure_output"
    /\ UNCHANGED <<registry_vars, merge_vars>>
    /\ UNCHANGED <<existing_data, used_domains, data_summary,
                   conversation_history, iteration_count, tasks, pre, joined,
                   supervisor_calls, ever_crawled, urls_selected, research_calls,
                   tool_calls_issued>>
    /\ IF ~Truthy(existing_data)
       THEN /\ structured_output' = None
            /\ node' = AfterStructureOutput
            /\ UNCHANGED raised_by
       ELSE \/ \* a structuring call raises
               /\ node' = "raised"
               /\ raised_by' = "structure_output"
               /\ UNCHANGED structured_output
            \/ /\ structured_output' = Structured
               /\ node' = AfterStructureOutput
               /\ UNCHANGED raised_by

(***************************************************************************)
(* search_providers/__init__.py: the initialization of the package         *)
(***************************************************************************)
SessionFrame ==
    UNCHANGED <<node, existing_data, used_domains, data_summary,
                conversation_history, iteration_count, structured_output,
                tasks, pre, joined, supervisor_calls, ever_crawled,
                urls_selected, research_calls, tool_calls_issued, raised_by>>

\* the step after the try block of a provider
AfterRegistration(name) ==
    LET k == CHOOSE k \in DOMAIN RegistrationOrder : RegistrationOrder[k] = name
    IN  IF k = Len(RegistrationOrder) THEN "select"
        ELSE RegistrationOrder[k + 1]

\* one try block of the registrations: the provider is registered, or its
\* construction or registration raises and is skipped
register_provider ==
    /\ init_pc \in Range(RegistrationOrder)
    /\ LET registered == register(registry, PackageProvider(init_pc),
                                  init_pc = "tavily")
       IN  \/ registry' = IF registered = Raise THEN registry ELSE registered
           \/ registry' = registry
    /\ init_pc' = AfterRegistration(init_pc)
    /\ UNCHANGED <<env, search_provider, research_types, last_call>>
    /\ UNCHANGED merge_vars
    /\ SessionFrame

\* the selection of the default after the registrations
select_default ==
    /\ init_pc = "select"
    /\ registry' = auto_select(registry, env)
    /\ init_pc' = "done"
    /\ UNCHANGED <<env, search_provider, research_types, last_call>>
    /\ UNCHANGED merge_vars
    /\ SessionFrame

TaskStep(i) ==
    \/ execute_research(i)
    \/ url_finder(i)
    \/ should_process_url_router(i)
    \/ crawl_url(i)
    \/ merge_events_and_update(i)

Next ==
    \/ supervisor_node
    \/ supervisor_tools_node
    \/ \E i \in DOMAIN tasks : TaskStep(i)
    \/ supervisor_tools_join
    \/ structure_output

Spec == Init /\ [][Next]_vars

(***************************************************************************)
(* The session with a crawler that may not answer.  crawl_url awaits       *)
(* url_crawler_app.ainvoke with no timeout, execute_research awaits        *)
(* research_events_app.ainvoke with no timeout and gather waits for every  *)
(* executor: while the call has not answered the executor stays where it   *)
(* is, and no step of the program ends the wait.                           *)
(***************************************************************************)
crawl_url_pending(i) ==
    /\ node = "gather"
    /\ i \in DOMAIN tasks
    /\ tasks[i].pc = "crawl_url"
    /\ tasks[i].research_question # ""
    /\ tasks' = [tasks EXCEPT ![i] = [@ EXCEPT !.pc = "pending"]]
    /\ UNCHANGED <<ever_crawled, urls_selected>>
    /\ TaskFrame

NextPending ==
    \/ Next
    \/ \E i \in DOMAIN tasks : crawl_url_pending(i)

\* the event loop runs every coroutine that can take a step
SpecPending == Init /\ [][NextPending]_vars /\ WF_vars(NextPending)

\* the initialization of search_providers, under every environment
InitRegistry ==
    /\ env \in SUBSET EnvVars
    /\ search_provider = NoName
    /\ registry = EmptyRegistry
    /\ init_pc = RegistrationOrder[1]
    /\ research_types = RegisteredTypes
    /\ last_call = NoCall
    /\ merge = NoMerge
    /\ merge_log = NoMergeLog
    /\ InitSession

NextRegistry ==
    \/ register_provider
    \/ select_default

SpecRegistry == InitRegistry /\ [][NextRegistry]_vars

(***************************************************************************)
(* Clients of the two registries: calls of register with any name, any     *)
(* object and any set_as_default, and calls of set_default and clear of    *)
(* the search provider registry, on registries that start empty            *)
(***************************************************************************)
\* the objects a client registers
Instances == 1..MaxInstances

InitCalls ==
    /\ env = EnvVars
    /\ search_provider = NoName
    /\ registry = EmptyRegistry
    /\ research_types = EmptyTypes
    /\ init_pc = "done"
    /\ last_call = NoCall
    /\ merge = NoMerge
    /\ merge_log = NoMergeLog
    /\ InitSession

\* SearchProviderRegistry.register(provider, set_as_default)
call_register ==
    /\ last_call.n < MaxCalls
    /\ \E name \in Range(RegistrationOrder), instance \in Instances,
          set_as_default \in BOOLEAN :
          LET registered == register(registry, Provider(name, instance),
                                     set_as_default)
          IN  /\ registry' = IF registered = Raise THEN registry
                              ELSE registered
              /\ last_call' = [n |-> last_call.n + 1, op |-> "register",
                               name |-> name, instance |-> instance,
                               set_as_default |-> set_as_default,
                               raised |-> registered = Raise]
    /\ UNCHANGED <<env, search_provider, init_pc, research_types>>
    /\ UNCHANGED merge_vars
    /\ SessionFrame

\* ResearchTypeRegistry.register(research_type)
call_register_type ==
    /\ last_call.n < MaxCalls
    /\ \E name \in TypeNames, instance \in Instances :
          LET registered == register_type(research_types,
                                          Provider(name, instance))
          IN  /\ research_types' = IF registered = Raise THEN research_types
                                    ELSE registered
              /\ last_call' = [n |-> last_call.n + 1, op |-> "register_type",
                               name |-> name, instance |-> instance,
                               set_as_default |-> FALSE,
                               raised |-> registered = Raise]
    /\ UNCHANGED <<env, search_provider, init_pc, registry>>
    /\ UNCHANGED merge_vars
    /\ SessionFrame

\* SearchProviderRegistry.set_default(name)
call_set_default ==
    /\ last_call.n < MaxCalls
    /\ \E name \in Range(RegistrationOrder) :
          LET changed == set_default(registry, name)
          IN  /\ registry' = IF changed = Raise THEN registry ELSE changed
              /\ last_call' = [n |-> last_call.n + 1, op |-> "set_default",
                               name |-> name, instance |-> 0,
                               set_as_default |-> FALSE,
                               raised |-> changed = Raise]
    /\ UNCHANGED <<env, search_provider, init_pc, research_types>>
    /\ UNCHANGED merge_vars
    /\ SessionFrame

\* SearchProviderRegistry.clear()
call_clear ==
    /\ last_call.n < MaxCalls
    /\ registry' = clear(registry)
    /\ last_call' = [n |-> last_call.n + 1, op |-> "clear", name |-> NoName,
                     instance |-> 0, set_as_default |-> FALSE,
                     raised |-> FALSE]
    /\ UNCHANGED <<env, search_provider, init_pc, research_types>>
    /\ UNCHANGED merge_vars
    /\ SessionFrame

NextCalls ==
    \/ call_register
    \/ call_register_type
    \/ call_set_default
    \/ call_clear

SpecCalls == InitCalls /\ [][NextCalls]_vars

(***************************************************************************)
(* merge_events_app on its own: one run of the merge sub-graph, node by    *)
(* node, for a data object of the biography or of the company research     *)
(* type.  A chunk is named by its index in the chunker's answer.           *)
(***************************************************************************)
\* fields of CompanyData; the model carries two of them
CompanyFields == {"overview", "news"}

\* the data objects a run starts with
MergeInputs ==
    {None,
     get_initial_data_structure,
     [c \in Categories |-> IF c = "early" THEN <<"a", "\n">> ELSE << >>],
     [f \in CompanyFields |-> << >>],
     [f \in CompanyFields |-> IF f = "overview" THEN <<"a">> ELSE << >>]}

InitMerge ==
    /\ env = EnvVars
    /\ search_provider = NoName
    /\ registry = Initialized(EnvVars)
    /\ research_types = RegisteredTypes
    /\ init_pc = "done"
    /\ last_call = NoCall
    /\ \E existing \in MergeInputs, extracted \in CrawlTexts \cup {<< >>} :
          /\ merge = [pc |-> "split_events",
                      existing_data |-> existing,
                      extracted_data |-> extracted,
                      text_chunks |-> << >>,
                      categorized_chunks |-> << >>,
                      extracted_data_categorized |-> None]
          /\ merge_log = [input |-> existing, classified |-> {},
                          relevant |-> {}, extracted |-> << >>,
                          chunked |-> 0, replies |-> << >>,
                          reconciled |-> FALSE, combined |-> {},
                          content |-> << >>, failed |-> {}]
    /\ InitSession

MergeFrame ==
    /\ UNCHANGED <<env, search_provider, registry, research_types, init_pc,
                   last_call>>
    /\ SessionFrame

\* an external call of a node raises: the run ends with the exception
MergeRaises ==
    /\ merge' = [merge EXCEPT !.pc = "raised"]
    /\ UNCHANGED merge_log

split_events ==
    /\ merge.pc = "split_events"
    /\ MergeFrame
    /\ IF split_events_ends(merge.extracted_data)
       THEN /\ merge' = [merge EXCEPT !.pc = "END", !.text_chunks = << >>,
                                      !.categorized_chunks = << >>]
            /\ UNCHANGED merge_log
       ELSE \/ MergeRaises
            \/ \E n \in 1..MaxChunkerAnswer :
                  LET chunks == [k \in 1..n |-> k]
                      kept == IF n > SplitChunkCap THEN SplitChunkCap ELSE n
                  IN  /\ merge' = [merge EXCEPT !.pc = "filter_chunks",
                                       !.text_chunks = SubSeq(chunks, 1, kept),
                                       !.categorized_chunks = << >>]
                      /\ merge_log' = [merge_log EXCEPT !.chunked = n]

filter_chunks ==
    /\ merge.pc = "filter_chunks"
    /\ MergeFrame
    /\ IF merge.text_chunks = << >>
       THEN /\ merge' = [merge EXCEPT !.pc = "END"]
            /\ UNCHANGED merge_log
       ELSE LET chunks == KeptChunks(Len(merge.text_chunks))
            IN  \/ MergeRaises
                \/ \E has_events \in [Range(chunks) -> BOOLEAN] :
                      LET relevant == relevant_chunks(chunks, has_events)
                      IN  /\ merge_log' = [merge_log EXCEPT
                                             !.classified = Range(chunks),
                                             !.relevant =
                                                {ch \in Range(chunks) :
                                                    has_events[ch]}]
                          /\ IF relevant = << >>
                             THEN merge' = [merge EXCEPT !.pc = "END"]
                             ELSE merge' =
                                    [merge EXCEPT
                                       !.pc = "extract_and_categorize_chunk",
                                       !.text_chunks =
                                          filter_chunks_update(chunks, has_events),
                                       !.categorized_chunks = << >>]

extract_and_categorize_chunk ==
    /\ merge.pc = "extract_and_categorize_chunk"
    /\ MergeFrame
    /\ IF Len(merge.categorized_chunks) >= Len(merge.text_chunks)
       THEN /\ merge' = [merge EXCEPT !.pc = "merge_categorizations"]
            /\ UNCHANGED merge_log
       ELSE LET chunk == next_chunk(merge.text_chunks,
                                    merge.categorized_chunks)
            IN  \/ /\ merge' = [merge EXCEPT !.pc = "raised"]
                   /\ merge_log' = [merge_log EXCEPT
                                       !.extracted = Append(@, chunk)]
                \/ \E reply \in ExtractReplies :
                      /\ merge' = [merge EXCEPT
                                     !.categorized_chunks =
                                        Append(@, ParseReply(reply))]
                      /\ merge_log' = [merge_log EXCEPT
                                         !.extracted = Append(@, chunk),
                                         !.replies = Append(@, reply)]

merge_categorizations ==
    /\ merge.pc = "merge_categorizations"
    /\ MergeFrame
    /\ merge' = [merge EXCEPT
                   !.pc = "combine_new_and_original_data",
                   !.extracted_data_categorized =
                      merge_categorized_events(merge.categorized_chunks)]
    /\ UNCHANGED merge_log

\* the node combine_new_and_original_data: a combine call for every field
\* of CombineCalls, gathered, then the data object is built
combine_node ==
    /\ merge.pc = "combine_new_and_original_data"
    /\ MergeFrame
    /\ LET calls == CombineCalls(merge.existing_data,
                                 merge.extracted_data_categorized)
       IN  \E content \in [calls -> LlmTexts], failing \in SUBSET calls :
              LET responses == gather_responses(content, failing)
              IN  /\ merge_log' = [merge_log EXCEPT !.reconciled = TRUE,
                                                    !.combined = calls,
                                                    !.content = content,
                                                    !.failed = failing]
                  /\ IF responses = Raise
                     THEN merge' = [merge EXCEPT !.pc = "raised"]
                     ELSE merge' =
                            [merge EXCEPT
                               !.pc = "END",
                               !.existing_data =
                                  combine_new_and_original_data(
                                     merge.existing_data,
                                     merge.extracted_data_categorized,
                                     responses)]

NextMerge ==
    \/ split_events
    \/ filter_chunks
    \/ extract_and_categorize_chunk
    \/ merge_categorizations
    \/ combine_node

SpecMerge == InitMerge /\ [][NextMerge]_vars

(***************************************************************************)
(* Properties                                                              *)
(***************************************************************************)
\* the decisions taken so far
AIMessages == {m \in Range(conversation_history) : m.type = "ai"}

IsFinish(m) == \E k \in DOMAIN m.tool_calls :
                  m.tool_calls[k].name = "FinishResearchTool"

SessionOver == node \in {"END", "raised"}

\* C1: with the iteration cap N = MAX_TOOL_CALL_ITERATIONS, supervisor_node
\* runs at most N times in a session, whether or not Finish is ever chosen.
C1_IterationBound == supervisor_calls <= MAX_TOOL_CALL_ITERATIONS

\* the cap forces structuring: N decisions, none of them Finish or empty
C1_Witness ==
    /\ node = "structure_output"
    /\ supervisor_calls = MAX_TOOL_CALL_ITERATIONS
    /\ \A m \in AIMessages : ~IsFinish(m) /\ m.tool_calls # << >>

\* C2: every session that ends has gone through the structuring stage; it
\* never ends anywhere else.
C2_EndsThroughStructuring ==
    SessionOver => (node = "END" \/ raised_by = "structure_output")

\* C3: when the tool-execution step hands over, it hands over to
\* structure_output, leaving the accumulator as it is, if the cap is reached,
\* the decision has no tool call or it has a FinishResearchTool call; in
\* every other case it hands over to the supervisor (after the batch, when
\* the decision has research calls).
C3_Terminal(tool_calls, count) ==
    \/ count >= MAX_TOOL_CALL_ITERATIONS
    \/ Len(tool_calls) = 0
    \/ \E k \in 1..Len(tool_calls) : tool_calls[k].name = "FinishResearchTool"

C3_Routing ==
    [][/\ node = "supervisor_tools" =>
            IF C3_Terminal(last_message.tool_calls, iteration_count)
            THEN node' = "structure_output" /\ existing_data' = existing_data
            ELSE node' \in {"supervisor", "gather"}
       /\ (node = "gather" /\ node' \notin {"gather", "raised"}) =>
            /\ node' = "supervisor"
            /\ ~C3_Terminal(last_message.tool_calls, iteration_count)
      ]_vars

\* a decision with a research call and a later Finish call, below the cap,
\* has been routed to structuring with a non-empty accumulator
C3_Witness ==
    /\ node = "structure_output"
    /\ iteration_count < MAX_TOOL_CALL_ITERATIONS
    /\ Len(last_message.tool_calls) = 2
    /\ last_message.tool_calls[1].name = "ResearchEventsTool"
    /\ last_message.tool_calls[2].name = "FinishResearchTool"
    /\ existing_data # None

\* the state right after the join of a batch: joined holds its settled tasks
AfterJoin == node = "supervisor" /\ joined # << >>

FailedTasks(ts) == {i \in DOMAIN ts : ts[i].pc = "failed"}

SucceededTasks(ts) == {i \in DOMAIN ts : ts[i].pc = "END"}

\* the accumulator a state value stands for: None is the empty accumulator
Accumulator(x) == IF x = None THEN get_initial_data_structure ELSE x

HasText(obj) == \E c \in Categories : Strip(obj[c]) # << >>

\* C4: if every executor of a batch fails, the accumulator after the turn
\* equals the accumulator before the turn, and the supervisor runs next.
C4_AllFailedUnchanged ==
    (AfterJoin /\ FailedTasks(joined) = DOMAIN joined)
        => existing_data = Accumulator(pre.existing_data)

\* C5: after a batch in which some executors raised and at least one
\* succeeded, every field of the accumulator is the join of the non-blank
\* values of that field in the accumulators the successful executors
\* returned, in batch order, and nothing else; the supervisor runs next.
C5_SuccessfulValues(c) ==
    LET ok == SelectSeq(joined, LAMBDA t : t.pc = "END")
        values == [k \in DOMAIN ok |-> Strip(ok[k].existing_data[c])]
    IN  SelectSeq(values, LAMBDA v : v # << >>)

C5_PartialFailure ==
    (AfterJoin /\ FailedTasks(joined) # {} /\ SucceededTasks(joined) # {})
        => \A c \in Categories :
              existing_data[c] = Join(<<"\n", "\n">>, C5_SuccessfulValues(c))

\* the first executor raised, the second returned text that is now the
\* accumulator
C5_Witness ==
    /\ AfterJoin
    /\ Len(joined) = 2
    /\ joined[1].pc = "failed"
    /\ joined[2].pc = "END"
    /\ HasText(joined[2].existing_data)
    /\ existing_data = joined[2].existing_data

\* C6: the batch is joined only when every executor has returned or raised,
\* and the join keeps the outcome of each; until then a step of one
\* executor, a failure included, changes no sibling; the result of every
\* executor that returned is aggregated.
C6_AllSettledJoin ==
    [][node = "gather" =>
        IF node' = "gather"
        THEN \A i, j \in DOMAIN tasks :
                (tasks'[i] # tasks[i] /\ j # i) => tasks'[j] = tasks[j]
        ELSE /\ \A i \in DOMAIN tasks : tasks[i].pc \in {"END", "failed"}
             /\ joined' = tasks
             /\ node' = "supervisor" =>
                   \A i \in SucceededTasks(tasks) :
                      /\ \E m \in Range(conversation_history') :
                            m.type = "tool" /\ m.tool_call_id = tasks[i].id
                      /\ Range(tasks[i].used_domains)
                            \subseteq Range(used_domains')
      ]_vars

\* an executor raised before any crawl and its sibling, which crawled and
\* merged, is in the aggregate
C6_Witness ==
    /\ AfterJoin
    /\ \E i, j \in DOMAIN joined :
          /\ joined[i].pc = "failed"
          /\ joined[i].crawled = {}
          /\ joined[j].pc = "END"
          /\ joined[j].crawled # {}
          /\ joined[j].crawled \subseteq Range(used_domains)

\* C7: while a batch runs the session's accumulator and used domains stay
\* as they were when the turn began; an executor starts from exactly these,
\* holds exactly the turn's accumulator until it has crawled, and never
\* holds a used domain that is neither the turn's nor of a URL it crawled.
C7_SnapshotIsolation ==
    node = "gather" =>
        /\ existing_data = pre.existing_data
        /\ used_domains = pre.used_domains
        /\ \A i \in DOMAIN tasks :
              LET t == tasks[i]
              IN  /\ t.pc = "url_finder" =>
                        /\ t.existing_data = Accumulator(pre.existing_data)
                        /\ t.used_domains = pre.used_domains
                  /\ t.pc \notin {"created", "failed"} =>
                        /\ Range(t.used_domains)
                              \subseteq Range(pre.used_domains) \cup t.crawled
                        /\ t.crawled = {} =>
                              t.existing_data = Accumulator(pre.existing_data)

\* the first executor has recorded a domain and changed its accumulator,
\* the second is at its start with the turn's values
C7_Witness ==
    /\ node = "gather"
    /\ Len(tasks) = 2
    /\ Range(tasks[1].used_domains) # Range(pre.used_domains)
    /\ tasks[1].pc \notin {"created", "failed"}
    /\ tasks[1].existing_data # Accumulator(pre.existing_data)
    /\ tasks[2].pc = "url_finder"
    /\ tasks[2].used_domains = pre.used_domains

C9_UsedDomainsGrow ==
    [][Range(used_domains) \subseteq Range(used_domains')]_vars

\* a batch with a failed executor has been joined and the used domains,
\* not empty before the turn, have grown
C9_Witness ==
    /\ AfterJoin
    /\ FailedTasks(joined) # {}
    /\ pre.used_domains # << >>
    /\ Range(pre.used_domains) \subseteq Range(used_domains)
    /\ Range(pre.used_domains) # Range(used_domains)

\* C10: no session ends with the exception of a supervisor call or of a
\* gap-summary call; after such a failure the session still goes on to
\* structuring.
C10_FailuresDegrade == raised_by \notin {"supervisor", "supervisor_tools"}

\* the tasks of the turn: in flight, or joined
TurnTasks == Range(tasks) \cup Range(joined)

\* C11: an executor that ended without a crawl (no search result, no URL
\* selected, or none left to crawl) returns exactly the accumulator and the
\* used domains it was started with, and the batch is joined.
C11_NoUrlsReturnsInput ==
    \A t \in TurnTasks :
       (t.pc = "END" /\ t.crawled = {})
          => /\ t.existing_data = Accumulator(pre.existing_data)
             /\ t.used_domains = pre.used_domains

\* a session with text and a used domain, no URL selected yet in the
\* session: the executor of the first batch ended and the batch is joined
C11_Witness ==
    /\ AfterJoin
    /\ urls_selected = 0
    /\ Len(joined) = 1
    /\ joined[1].pc = "END"
    /\ HasText(joined[1].existing_data)
    /\ joined[1].used_domains # << >>
    /\ existing_data = joined[1].existing_data

\* C12: an executor whose search or crawl raised has no accumulator and no
\* used domains, whatever it crawled before; the join gets its exception:
\* the aggregate has no tool message for it and no domain but those of the
\* session and of the executors that returned.
C12_FailurePropagates ==
    /\ \A t \in TurnTasks :
          t.pc = "failed" => t.existing_data = None /\ t.used_domains = << >>
    /\ AfterJoin =>
          /\ \A i \in FailedTasks(joined) :
                \A m \in Range(conversation_history) :
                   m.type = "tool" => m.tool_call_id # joined[i].id
          /\ Range(used_domains) \subseteq
                Range(pre.used_domains)
                \cup UNION {Range(joined[i].used_domains) :
                               i \in SucceededTasks(joined)}

\* an executor crawled and merged one URL and then failed at the second;
\* the batch is joined and the domains it crawled are not recorded
C12_Witness ==
    /\ AfterJoin
    /\ \E i \in FailedTasks(joined) :
          /\ Cardinality(joined[i].crawled) = 2
          /\ joined[i].crawled \cap Range(used_domains) = {}

\* C13: a merge of an empty or whitespace-only extracted text returns the
\* accumulator it was given, and no call of the chunker, the filter, the
\* extractor or the reconciliation is made that could raise; so does every
\* repetition.
C13_BlankMergeIsNoOp ==
    [][\A i \in DOMAIN tasks :
          (/\ node = "gather"
           /\ tasks[i].pc = "merge_events_and_update"
           /\ Strip(tasks[i].extracted_data) = << >>
           /\ tasks'[i] # tasks[i])
              => /\ tasks'[i].pc = "should_process_url_router"
                 /\ tasks'[i].existing_data = tasks[i].existing_data]_vars

\* an executor has merged a blank crawl result into an accumulator with
\* text, which it holds as it got it
C13_Witness ==
    /\ node = "gather"
    /\ \E i \in DOMAIN tasks :
          /\ tasks[i].pc = "should_process_url_router"
          /\ tasks[i].urls = << >>
          /\ tasks[i].crawled # {}
          /\ Strip(tasks[i].extracted_data) = << >>
          /\ HasText(tasks[i].existing_data)
          /\ tasks[i].existing_data = Accumulator(pre.existing_data)

\* C14: every accumulator an executor holds after its start and every
\* accumulator of the session has every category; an executor's accumulator
\* is never null, and the session's is null only if it was so when the turn
\* began.
HasEveryCategory(obj) == obj # None /\ DOMAIN obj = Categories

C14_CategoriesKept ==
    /\ existing_data # None => HasEveryCategory(existing_data)
    /\ existing_data = None => pre.existing_data = None
    /\ \A t \in TurnTasks :
          t.pc \notin {"created", "failed"} => HasEveryCategory(t.existing_data)

\* a reconciliation has changed one category of an executor's accumulator
\* and left the other one empty
C14_Witness ==
    /\ node = "gather"
    /\ \E i \in DOMAIN tasks :
          /\ tasks[i].pc = "should_process_url_router"
          /\ tasks[i].crawled # {}
          /\ tasks[i].existing_data # Accumulator(pre.existing_data)
          /\ \E c \in Categories : tasks[i].existing_data[c] = << >>
          /\ \E c \in Categories : tasks[i].existing_data[c] # << >>

\* the texts the executors that returned hold for category c, in batch
\* order
ReturnedTexts(c) ==
    LET ok == SelectSeq(joined, LAMBDA t : t.pc = "END")
    IN  [k \in DOMAIN ok |-> ok[k].existing_data[c]]

IsBlank(text) == \A k \in DOMAIN text : text[k] \in {" ", "\n"}

\* C15 as stated: after a batch with an executor that returned, every
\* category of the accumulator is the join of the non-blank texts the
\* executors returned for it, as they returned them.
C15_JoinOfReturnedTexts ==
    (AfterJoin /\ SucceededTasks(joined) # {})
        => \A c \in Categories :
              existing_data[c] =
                 Join(<<"\n", "\n">>,
                      SelectSeq(ReturnedTexts(c), LAMBDA v : ~IsBlank(v)))

\* C15 as amended: every category is the join, with a blank line between,
\* of the non-blank texts the executors returned for it, each without its
\* leading and trailing whitespace, one entry per executor; it is empty if
\* and only if all of them are blank.
C15_JoinOfStrippedTexts ==
    (AfterJoin /\ SucceededTasks(joined) # {})
        => \A c \in Categories :
              LET entries == SelectSeq(ReturnedTexts(c), LAMBDA v : ~IsBlank(v))
              IN  /\ existing_data[c] =
                        Join(<<"\n", "\n">>,
                             [k \in DOMAIN entries |-> Strip(entries[k])])
                  /\ existing_data[c] = << >> <=> entries = << >>

\* two executors returned text for one category, and nothing for the other
C15_Witness ==
    /\ AfterJoin
    /\ Len(joined) = 2
    /\ SucceededTasks(joined) = {1, 2}
    /\ \E c \in Categories :
          /\ ~IsBlank(joined[1].existing_data[c])
          /\ ~IsBlank(joined[2].existing_data[c])
    /\ \E c \in Categories : existing_data[c] = << >>

\* an accumulator that is unset, or whose every category is blank text
IsEmptyAccumulator(x) == x = None \/ ~HasText(x)

\* C16: a session that the structuring stage has ended has a null
\* structured output exactly when its accumulator is unset or empty, an
\* accumulator whose every category is empty text included, and the
\* structuring of the research type is never invoked, and so never raises,
\* for such an accumulator.
C16_NullWhenEmpty ==
    /\ node = "END"
          => (structured_output = None <=> IsEmptyAccumulator(existing_data))
    /\ raised_by = "structure_output" => ~IsEmptyAccumulator(existing_data)

\* C17: a step of the structuring stage ends the session, leaves the
\* accumulator, the used domains, the iteration count, the summary and the
\* history as they are, and no step of any node or executor is taken once
\* the session is over.
C17_StructuringIsTerminal ==
    [][/\ ~SessionOver
       /\ node = "structure_output"
             => /\ SessionOver'
                /\ UNCHANGED <<existing_data, used_domains, iteration_count,
                               conversation_history, data_summary, tasks>>]_vars

\* the structuring stage has returned the structured output of a session
\* that took a research turn
C17_Witness ==
    /\ node = "END"
    /\ structured_output = Structured
    /\ iteration_count >= 2
    /\ HasText(existing_data)
    /\ used_domains # << >>

\* C18 as stated: the history holds exactly one record for every turn the
\* supervisor has taken.
C18_OneRecordPerTurn == Len(conversation_history) = iteration_count

\* the messages a step appends to the history
Appended ==
    SubSeq(conversation_history', Len(conversation_history) + 1,
           Len(conversation_history'))

\* C18 as amended: every step keeps the messages of the history as they
\* are and only appends to it; a step of the supervisor that returns a
\* decision appends exactly one message, the decision, and adds one to
\* iteration_count, whatever the decision is; every other step leaves
\* iteration_count as it is and appends tool messages only, none when it
\* routes to the structuring stage.
C18_OneDecisionPerTurn ==
    [][/\ Len(conversation_history') >= Len(conversation_history)
       /\ SubSeq(conversation_history', 1, Len(conversation_history))
             = conversation_history
       /\ Len(SelectSeq(conversation_history, LAMBDA m : m.type = "ai"))
             = iteration_count
       /\ IF node = "supervisor" /\ node' = "supervisor_tools"
          THEN /\ Len(Appended) = 1
               /\ Appended[1].type = "ai"
               /\ iteration_count' = iteration_count + 1
          ELSE /\ \A k \in DOMAIN Appended : Appended[k].type = "tool"
               /\ iteration_count' = iteration_count
               /\ node' = "structure_output" => Appended = << >>]_vars

\* a reflection turn, a research turn and a turn with no decision have
\* been taken: three decisions and more than three messages
C18_Witness ==
    /\ node = "structure_output"
    /\ iteration_count = 3
    /\ Len(conversation_history) > 3
    /\ \E m \in AIMessages : HasTool(m.tool_calls, "think_tool")
    /\ \E m \in AIMessages : HasTool(m.tool_calls, "ResearchEventsTool")
    /\ last_message.type = "ai"
    /\ last_message.tool_calls = << >>

\* the provider the searches of the session use
SelectedProvider == get(registry, search_provider).name

\* C19: in a session whose selected provider lacks a required environment
\* variable the supervisor takes no decision and no executor is started.
C19_StopsOnMisconfiguration ==
    (init_pc = "done" /\ ~validate_config(SelectedProvider, env))
        => /\ supervisor_calls = 0
           /\ tasks = << >>
           /\ joined = << >>

\* C20: once the registrations and the selection of the default are done,
\* the default provider is a registered provider with a valid
\* configuration whenever some registered provider has one.
C20_DefaultIsConfigured ==
    (/\ init_pc = "done"
     /\ \E name \in Range(registry.providers) : validate_config(name, env))
        => /\ registry.default \in Range(registry.providers)
           /\ validate_config(registry.default, env)

\* tavily is registered without its key, a registration was skipped, and
\* the selection has moved the default to a configured provider
C20_Witness ==
    /\ init_pc = "done"
    /\ "tavily" \in Range(registry.providers)
    /\ ~validate_config("tavily", env)
    /\ Len(registry.providers) < Len(RegistrationOrder)
    /\ registry.default # "tavily"
    /\ validate_config(registry.default, env)

\* C21: a register call of either registry with a name that is already
\* registered raises and leaves the registry as it is: get returns the
\* object registered first, and the default provider stays the same, with
\* set_as_default too.
C21_DuplicateRegistrationRaises ==
    [][/\ (last_call'.op = "register"
           /\ last_call'.name \in Range(registry.providers))
             => /\ last_call'.raised
                /\ registry' = registry
                /\ get(registry', last_call'.name)
                      = get(registry, last_call'.name)
                /\ get(registry', NoName) = get(registry, NoName)
       /\ (last_call'.op = "register_type"
           /\ get_type(research_types, last_call'.name).found)
             => /\ last_call'.raised
                /\ research_types' = research_types
                /\ get_type(research_types', last_call'.name)
                      = get_type(research_types, last_call'.name)]_vars

\* a second object was registered with set_as_default under the name of a
\* registered provider that is not the default
C21_Witness ==
    /\ last_call.op = "register"
    /\ last_call.raised
    /\ last_call.set_as_default
    /\ registry.default # last_call.name
    /\ get(registry, last_call.name).found
    /\ get(registry, last_call.name).instance # last_call.instance

\* C22: an executor handles its URLs one at a time, in list order.  A step
\* of the router on a head URL whose domain is in used_domains drops the
\* head and changes nothing else; on any other head it hands that URL to
\* the crawl and changes nothing.  The crawl is of the head URL and leaves
\* the lists and the accumulator as they are; the merge that follows
\* stores the accumulator of the merge (the one it had when the crawled
\* text is blank), records the domain of the head at the end of
\* used_domains and drops the head, and only then the router inspects the
\* next URL.
C22_OneUrlAtATime ==
    [][\A i \in DOMAIN tasks :
          (node = "gather" /\ node' = "gather" /\ tasks'[i] # tasks[i]
           /\ tasks[i].urls # << >> /\ tasks'[i].pc # "failed")
             => LET t == tasks[i]
                    u == tasks'[i]
                    d == extract_domain(Head(t.urls))
                IN  CASE t.pc = "should_process_url_router" ->
                           IF d \in Range(t.used_domains)
                           THEN u = [t EXCEPT !.urls = Tail(t.urls)]
                           ELSE u = [t EXCEPT !.pc = "crawl_url"]
                      [] t.pc = "crawl_url" ->
                           /\ u.pc = "merge_events_and_update"
                           /\ d \notin Range(t.used_domains)
                           /\ u.crawled = t.crawled \cup {d}
                           /\ u.urls = t.urls
                           /\ u.used_domains = t.used_domains
                           /\ u.existing_data = t.existing_data
                      [] t.pc = "merge_events_and_update" ->
                           /\ u.pc = "should_process_url_router"
                           /\ u.crawled = t.crawled
                           /\ d \in t.crawled
                           /\ u.urls = Tail(t.urls)
                           /\ u.used_domains = Append(t.used_domains, d)
                           /\ IF split_events_ends(t.extracted_data)
                              THEN u.existing_data = t.existing_data
                              ELSE HasEveryCategory(u.existing_data)
                      [] OTHER -> FALSE]_vars

\* an executor has dropped a URL of a used domain without a crawl, then
\* crawled and merged the next one, whose domain is now the last of its
\* used domains
C22_Witness ==
    /\ node = "gather"
    /\ \E i \in DOMAIN tasks :
          /\ tasks[i].pc = "should_process_url_router"
          /\ tasks[i].urls = << >>
          /\ Cardinality(tasks[i].crawled) = 1
          /\ Len(tasks[i].used_domains) = 2
          /\ tasks[i].used_domains[2] \in tasks[i].crawled
          /\ tasks[i].used_domains[1] \notin tasks[i].crawled
          /\ urls_selected = 2
          /\ Len(tasks) = 1

\* the position of an executor between two inspections of its URL list:
\* three for every URL left, less one once the head is handed to the crawl
\* and one more once it is crawled
Variant(t) ==
    3 * Len(t.urls)
    + CASE t.pc = "should_process_url_router" -> 2
        [] t.pc = "crawl_url" -> 1
        [] OTHER -> 0

\* the crawls an executor has made and the ones it can still make
CrawlsDoneAndLeft(t) ==
    Cardinality(t.crawled) + Len(t.urls)
    - (IF t.pc = "merge_events_and_update" THEN 1 ELSE 0)

\* C23: every step of an executor after the ranking either ends its run or
\* brings it nearer to the end: a pass through the router ends the run on
\* an empty list and otherwise leads back to the router with a strictly
\* shorter list; a domain is crawled only for the head of the list, and
\* the crawls made and the URLs left never exceed the URLs the ranking
\* selected.
C23_ExecutorTerminates ==
    [][\A i \in DOMAIN tasks :
          (node = "gather" /\ node' = "gather" /\ tasks'[i] # tasks[i])
             => LET t == tasks[i]
                    u == tasks'[i]
                IN  CASE t.pc = "created" -> TRUE
                      [] t.pc = "url_finder" ->
                           /\ u.crawled = {}
                           /\ u.pc = "should_process_url_router"
                                 => CrawlsDoneAndLeft(u) = Len(u.urls)
                      [] OTHER ->
                           /\ t.pc = "should_process_url_router"
                              /\ t.urls = << >> => u.pc = "END"
                           /\ u.pc \in {"END", "failed"}
                              \/ /\ Variant(u) < Variant(t)
                                 /\ Len(u.urls) <= Len(t.urls)
                                 /\ CrawlsDoneAndLeft(u) <= CrawlsDoneAndLeft(t)
                           /\ u.crawled # t.crawled
                                 => /\ t.pc = "crawl_url"
                                    /\ t.urls # << >>
                                    /\ Cardinality(u.crawled)
                                          = Cardinality(t.crawled) + 1]_vars

\* an executor has crawled both URLs the ranking selected and ended
C23_Witness ==
    /\ node = "gather"
    /\ \E i \in DOMAIN tasks :
          /\ tasks[i].pc = "END"
          /\ Cardinality(tasks[i].crawled) = 2
          /\ urls_selected = 2

\* C24: the chunks handed to the extraction are chunks the relevance
\* filter classified relevant, and once the extraction is done they are
\* exactly the relevant chunks, in their order.
C24_ExtractedAreRelevant ==
    /\ Range(merge_log.extracted) \subseteq merge_log.relevant
    /\ merge.pc = "merge_categorizations"
          => merge_log.extracted
                = SelectSeq(KeptChunks(Cardinality(merge_log.classified)),
                            LAMBDA ch : ch \in merge_log.relevant)

\* C25: a run in which the relevance filter classified chunks and found
\* none relevant has ended with the data object it started with, without
\* an extraction and without a combine call.
C25_AllIrrelevantIsNoOp ==
    (merge_log.classified # {} /\ merge_log.relevant = {})
        => /\ merge.pc = "END"
           /\ merge.existing_data = merge_log.input
           /\ merge_log.extracted = << >>
           /\ ~merge_log.reconciled
           /\ merge_log.combined = {}

\* two chunks of a page were classified, none is relevant, and the data
\* object holds text
C25_Witness ==
    /\ merge.pc = "END"
    /\ Cardinality(merge_log.classified) = 2
    /\ merge_log.relevant = {}
    /\ merge_log.input # None
    /\ \E f \in DOMAIN merge_log.input : merge_log.input[f] # << >>

\* C26: every categorized chunk the extraction produces has exactly the
\* fields of the data object of the run, whatever the research type.
C26_ExtractionKeyedByKind ==
    merge_log.input # None
        => \A k \in DOMAIN merge.categorized_chunks :
              DOMAIN merge.categorized_chunks[k] = DOMAIN merge_log.input

\* the data objects the reconciliation reads
ReconciledExisting ==
    IF IsCategoriesWithEvents(merge_log.input)
    THEN ensure_categories_with_events(merge_log.input)
    ELSE merge_log.input

ReconciledNew ==
    IF IsCategoriesWithEvents(merge_log.input)
    THEN ensure_categories_with_events(merge.extracted_data_categorized)
    ELSE merge.extracted_data_categorized

\* the rule of one category: no call and the existing value when both
\* texts are blank, else one call whose answer is the value
CategoryRule(f) ==
    IF /\ Strip(GetAttr(ReconciledExisting, f)) = << >>
       /\ Strip(GetAttr(ReconciledNew, f)) = << >>
    THEN /\ f \notin merge_log.combined
         /\ merge.existing_data[f] = GetAttr(ReconciledExisting, f)
    ELSE /\ f \in merge_log.combined
         /\ merge.existing_data[f] = merge_log.content[f]

\* C27 as stated: after a reconciliation every category follows the rule.
C27_OneCombinePerCategory ==
    (merge_log.reconciled /\ merge.pc = "END" /\ merge_log.input # None)
        => \A f \in DOMAIN merge_log.input : CategoryRule(f)

\* C27 as amended: a reconciliation on an unset data object returns the
\* extracted one without a call; one in which no category has extracted
\* text makes no call and returns the existing data object; in any other
\* one every category follows the rule.
C27_CombinePerCategoryWhenNewText ==
    (merge_log.reconciled /\ merge.pc = "END")
        => IF merge_log.input = None
           THEN /\ merge_log.combined = {}
                /\ merge.existing_data = merge.extracted_data_categorized
           ELSE IF \A f \in DOMAIN merge_log.input :
                      Strip(GetAttr(ReconciledNew, f)) = << >>
           THEN /\ merge_log.combined = {}
                /\ merge.existing_data = ReconciledExisting
           ELSE /\ DOMAIN merge.existing_data = DOMAIN merge_log.input
                /\ \A f \in DOMAIN merge_log.input : CategoryRule(f)

\* a reconciliation with extracted text for one category only, existing
\* text for the other only: a call for each
C27_Witness ==
    /\ merge_log.reconciled
    /\ merge.pc = "END"
    /\ merge_log.input # None
    /\ merge_log.combined = DOMAIN merge_log.input
    /\ \E f \in DOMAIN merge_log.input :
          /\ Strip(GetAttr(ReconciledNew, f)) = << >>
          /\ Strip(GetAttr(ReconciledExisting, f)) # << >>
    /\ \E f \in DOMAIN merge_log.input :
          /\ Strip(GetAttr(ReconciledNew, f)) # << >>
          /\ Strip(GetAttr(ReconciledExisting, f)) = << >>

\* C28: a reconciliation in which a combine call failed has ended the run
\* with the exception and returned no data object, the one of the run is
\* as it was; a reconciliation that returned holds the answer of every
\* call it made.
C28_CombineFailureFailsMerge ==
    /\ merge_log.failed # {}
          => /\ merge.pc = "raised"
             /\ merge.existing_data = merge_log.input
    /\ (merge_log.reconciled /\ merge.pc = "END")
          => \A f \in merge_log.combined :
                merge.existing_data[f] = merge_log.content[f]

\* of the two combine calls of a reconciliation one failed
C28_Witness ==
    /\ merge.pc = "raised"
    /\ Cardinality(merge_log.combined) = 2
    /\ Cardinality(merge_log.failed) = 1

\* C29: after a batch of two or more executors that all returned the
\* accumulator they were given, the accumulator is the one the turn
\* started with.
C29_UnchangedBatchKeepsAccumulator ==
    (/\ AfterJoin
     /\ Len(joined) >= 2
     /\ \A k \in DOMAIN joined :
           /\ joined[k].pc = "END"
           /\ joined[k].existing_data = Accumulator(pre.existing_data))
        => existing_data = Accumulator(pre.existing_data)

\* the data objects of a batch in another order
Permuted(objs, p) == [k \in DOMAIN objs |-> objs[p[k]]]

\* C30: the accumulator after a batch is the aggregate of the data objects
\* of the executors that returned, and in every order of those objects the
\* aggregation finds, for every category, the same set of text blocks and
\* a category empty in one order is empty in every order.
C30_AggregationIgnoresOrder ==
    AfterJoin
        => LET objs == all_data_objects(joined)
           IN  /\ existing_data = merge_data_objects(objs)
               /\ \A p \in Perms(DOMAIN objs) :
                     \A c \in Categories :
                        /\ Range(field_values(Permuted(objs, p), c))
                              = Range(field_values(objs, c))
                        /\ merge_data_objects(Permuted(objs, p))[c] = << >>
                              <=> existing_data[c] = << >>

\* two executors returned, the first one without text for a category and
\* the second one with text for it
C30_Witness ==
    /\ AfterJoin
    /\ Len(joined) = 2
    /\ SucceededTasks(joined) = {1, 2}
    /\ \E c \in Categories :
          /\ IsBlank(joined[1].existing_data[c])
          /\ ~IsBlank(joined[2].existing_data[c])
          /\ existing_data[c] # << >>

\* C31: after a batch the used domains are, without duplicates, the used
\* domains the turn started with and the ones the executors that returned
\* hold; a domain that only an executor that failed has crawled is not
\* among them.
C31_UsedDomainsAreUnion ==
    AfterJoin
        => /\ Range(used_domains)
                 = Range(pre.used_domains)
                   \cup UNION {Range(joined[k].used_domains) :
                                  k \in SucceededTasks(joined)}
           /\ Len(used_domains) = Cardinality(Range(used_domains))
           /\ \A k \in FailedTasks(joined) :
                 \A d \in joined[k].crawled :
                    d \in Range(used_domains)
                       => \/ d \in Range(pre.used_domains)
                          \/ \E j \in SucceededTasks(joined) : d \in joined[j].crawled

\* after a batch of two: one executor crawled a new domain and returned,
\* the other one crawled a domain that is not among the used ones and failed
C31_Witness ==
    /\ AfterJoin
    /\ Len(joined) = 2
    /\ \E k \in SucceededTasks(joined) :
          /\ joined[k].crawled # {}
          /\ joined[k].crawled \subseteq Range(used_domains)
    /\ \E k \in FailedTasks(joined) :
          /\ joined[k].crawled # {}
          /\ joined[k].crawled \cap Range(used_domains) = {}

\* the tool step of the turn has acted: pre holds the state it started from
ToolStepDone ==
    /\ node \in {"structure_output", "gather", "supervisor"}
    /\ pre.conversation_history # << >>

\* the decision the tool step acted on
TurnDecision ==
    pre.conversation_history[Len(pre.conversation_history)].tool_calls

\* the executors started in the current turn
TurnExecutors ==
    {i \in DOMAIN tasks : tasks[i].id[1] = iteration_count}

\* C32: when the decision of a turn holds a FinishResearchTool call, at any
\* position, the tool step starts no executor and goes to the structuring
\* stage with the accumulator, the used domains, the gap summary and the
\* turn history as they were, whatever else the decision holds.
C32_FinishAnywhereEndsTurn ==
    (ToolStepDone /\ HasTool(TurnDecision, "FinishResearchTool"))
        => /\ node = "structure_output"
           /\ TurnExecutors = {}
           /\ joined = << >>
           /\ existing_data = pre.existing_data
           /\ used_domains = pre.used_domains
           /\ data_summary = pre.data_summary
           /\ conversation_history = pre.conversation_history

\* the tool step has acted on a decision of three calls below the cap: a
\* reflection, a research call and, last, FinishResearchTool
C32_Witness ==
    /\ ToolStepDone
    /\ ~exceeded_allowed_iterations(iteration_count)
    /\ Len(TurnDecision) = 3
    /\ TurnDecision[1].name = "think_tool"
    /\ TurnDecision[2].name = "ResearchEventsTool"
    /\ TurnDecision[3].name = "FinishResearchTool"

\* the tool messages of the history
ToolMessages == {m \in Range(conversation_history) : m.type = "tool"}

\* C33: with the cap N = MAX_TOOL_CALL_ITERATIONS, only the first N - 1
\* decisions of a session are ever executed: every executor and every tool
\* message belongs to one of them, and the tool step of the N-th decision
\* starts no executor, records nothing and goes to the structuring stage.
C33_LastDecisionNotExecuted ==
    /\ \A i \in DOMAIN tasks : tasks[i].id[1] <= MAX_TOOL_CALL_ITERATIONS - 1
    /\ \A m \in ToolMessages :
          m.tool_call_id[1] <= MAX_TOOL_CALL_ITERATIONS - 1
    /\ (ToolStepDone /\ node # "structure_output")
          => supervisor_calls <= MAX_TOOL_CALL_ITERATIONS - 1
    /\ (ToolStepDone /\ supervisor_calls = MAX_TOOL_CALL_ITERATIONS)
          => /\ node = "structure_output"
             /\ TurnExecutors = {}
             /\ conversation_history = pre.conversation_history
             /\ existing_data = pre.existing_data

\* the tool step has acted on the N-th decision, a research call and no
\* FinishResearchTool call, after N - 1 decisions that were executed
C33_Witness ==
    /\ ToolStepDone
    /\ supervisor_calls = MAX_TOOL_CALL_ITERATIONS
    /\ TurnDecision # << >>
    /\ HasTool(TurnDecision, "ResearchEventsTool")
    /\ ~HasTool(TurnDecision, "FinishResearchTool")
    /\ Cardinality({m.tool_call_id[1] : m \in ToolMessages})
          = MAX_TOOL_CALL_ITERATIONS - 1

\* the messages the tool step of the turn has appended to the history
TurnMessages ==
    SubSeq(conversation_history, Len(pre.conversation_history) + 1,
           Len(conversation_history))

\* the number of tool messages of the turn that carry the id of a tool call
RecordsOf(tc) ==
    Cardinality({i \in DOMAIN TurnMessages :
                    /\ TurnMessages[i].type = "tool"
                    /\ TurnMessages[i].tool_call_id = tc.id})

\* C34: in a turn that returns control to the supervisor, every think_tool
\* call and every research call whose executor returned has exactly one
\* tool message with its id appended to the history, also a think_tool call
\* of a decision that holds research calls.
C34_EveryInvocationRecorded ==
    (ToolStepDone /\ node = "supervisor")
        => \A k \in DOMAIN TurnDecision :
              LET tc == TurnDecision[k]
              IN  (\/ tc.name = "think_tool"
                   \/ /\ tc.name = "ResearchEventsTool"
                      /\ \E j \in SucceededTasks(joined) : joined[j].id = tc.id)
                      => RecordsOf(tc) = 1

\* the tool step has acted on the latest decision of the history: no
\* decision has been taken since
LatestDecisionHandled ==
    /\ pre.conversation_history # << >>
    /\ node # "supervisor_tools"
    /\ \A i \in DOMAIN conversation_history :
          i > Len(pre.conversation_history)
             => conversation_history[i].type = "tool"

ThinkOnly(tool_calls) ==
    /\ tool_calls # << >>
    /\ \A k \in DOMAIN tool_calls : tool_calls[k].name = "think_tool"

\* C35: the tool step of a decision that holds think_tool calls only starts
\* no executor and makes no gap-summary call; it leaves the used domains,
\* the gap summary, iteration_count (the number of decisions taken) and
\* every category text of the accumulator as they were and appends nothing but the reflections to the
\* history: below the cap one tool message per call, in the order of the
\* calls, and none at the cap, where the decision is not executed.
C35_ThinkOnlyTurn ==
    (LatestDecisionHandled /\ ThinkOnly(TurnDecision))
        => /\ TurnExecutors = {}
           /\ joined = << >>
           /\ node # "gather"
           /\ raised_by # "supervisor_tools"
           /\ used_domains = pre.used_domains
           /\ data_summary = pre.data_summary
           /\ iteration_count = Cardinality(AIMessages)
           /\ Accumulator(existing_data) = Accumulator(pre.existing_data)
           /\ TurnMessages =
                 IF exceeded_allowed_iterations(iteration_count)
                 THEN << >>
                 ELSE [k \in DOMAIN TurnDecision |->
                          ToolMessage(TurnDecision[k].args.reflection,
                                      TurnDecision[k].id, "think_tool")]

\* a session that resumes with texts and used domains, a gap summary
\* written by an earlier batch, and the tool step has acted on a decision
\* of two reflections below the cap
C35_Witness ==
    /\ LatestDecisionHandled
    /\ ThinkOnly(TurnDecision)
    /\ Len(TurnDecision) = 2
    /\ node = "supervisor"
    /\ Len(TurnMessages) = 2
    /\ pre.data_summary # ""
    /\ pre.used_domains # << >>
    /\ HasText(Accumulator(pre.existing_data))

\* a run of merge_events_app on its own is under way or over
MergeRun == merge.pc # "none"

EmptyCategorized == [c \in Categories |-> << >>]

\* C36: a reply of the extractor with no tool call, or whose first tool
\* call is not RelevantEventsCategorized, gives its chunk an all-empty
\* categorized chunk; the reply raises nothing, every reply received has
\* its categorized chunk, and while chunks are left the loop goes on.
C36_UnusableReplyIsEmptyChunk ==
    MergeRun
        => /\ Len(merge_log.replies) = Len(merge.categorized_chunks)
           /\ \A i \in DOMAIN merge_log.replies :
                 merge_log.replies[i].tool # "RelevantEventsCategorized"
                    => /\ merge.categorized_chunks[i] = EmptyCategorized
                       /\ (/\ Len(merge_log.extracted) = i
                           /\ i < Len(merge.text_chunks))
                             => merge.pc = "extract_and_categorize_chunk"

\* two chunks: the reply for the first one names IrrelevantChunk first, with
\* arguments, and the second chunk has been extracted with events
C36_Witness ==
    /\ MergeRun
    /\ Len(merge_log.replies) = 2
    /\ merge_log.replies[1].tool = "IrrelevantChunk"
    /\ merge_log.replies[1].args # EmptyCategorized
    /\ merge_log.replies[2].tool = "RelevantEventsCategorized"
    /\ merge.categorized_chunks[2] # EmptyCategorized

\* C37: in one merge the relevance filter classifies, and the extraction is
\* handed, at most max_chunks chunks; they are the first chunks of the
\* chunker's answer, in its order, and no chunk beyond them is ever handed
\* to a call.
C37_ChunkCap ==
    MergeRun
        => /\ Cardinality(merge_log.classified) <= max_chunks
           /\ Len(merge_log.extracted) <= max_chunks
           /\ merge_log.classified = 1..Cardinality(merge_log.classified)
           /\ Cardinality(merge_log.classified) <= merge_log.chunked
           /\ Range(merge_log.extracted) \subseteq merge_log.classified
           /\ merge.pc \in {"extract_and_categorize_chunk",
                            "merge_categorizations"}
                 => merge.text_chunks = [i \in 1..Len(merge.text_chunks) |-> i]

\* the chunker answered with more than max_chunks chunks and the run has
\* extracted max_chunks of them
C37_Witness ==
    /\ MergeRun
    /\ merge_log.chunked > max_chunks
    /\ Cardinality(merge_log.classified) = max_chunks
    /\ Len(merge_log.extracted) = max_chunks
    /\ merge.pc = "merge_categorizations"

\* C38: the extraction loop takes the chunks in index order, one per step:
\* the calls made so far are for the first chunks of the list, and when the
\* loop hands over to merge_categorizations it has made as many calls as
\* there are chunks, and the i-th categorized chunk is the parse of the
\* reply for the i-th chunk.
C38_LoopInOrder ==
    MergeRun
        => /\ Len(merge_log.extracted) <= Len(merge.text_chunks)
           /\ \A i \in DOMAIN merge_log.extracted :
                 merge_log.extracted[i] = merge.text_chunks[i]
           /\ merge.pc = "extract_and_categorize_chunk"
                 => Len(merge.categorized_chunks) = Len(merge_log.extracted)
           /\ merge.pc = "merge_categorizations"
                 => /\ Len(merge_log.extracted) = Len(merge.text_chunks)
                    /\ Len(merge.categorized_chunks) = Len(merge.text_chunks)
                    /\ \A i \in DOMAIN merge.text_chunks :
                          merge.categorized_chunks[i]
                             = ParseReply(merge_log.replies[i])

\* the loop has handed over two chunks with different categorized chunks
C38_Witness ==
    /\ MergeRun
    /\ merge.pc = "merge_categorizations"
    /\ Len(merge.text_chunks) = 2
    /\ merge_log.extracted = <<1, 2>>
    /\ merge.categorized_chunks[1] # merge.categorized_chunks[2]

\* C39: no external call stays pending forever: a batch with a call that
\* does not answer still joins, the call having become a failure of its
\* executor after a bounded wait.
C39_BatchAlwaysJoins == (node = "gather") ~> (node # "gather")

\* C40: after any calls of register, set_default and clear on the search
\* provider registry, raising ones included, the default is unset exactly
\* when no provider is registered and names a registered provider
\* otherwise, so that get() without a name returns a provider as soon as
\* one is registered.
C40_DefaultIsRegistered ==
    /\ registry.default = NoName <=> registry.providers = << >>
    /\ registry.default # NoName
          => registry.default \in Range(registry.providers)
    /\ registry.providers # << >>
          => /\ get(registry, NoName).found
             /\ get(registry, NoName).name = registry.default

\* a set_default call with an unknown name has raised on a registry of two
\* providers whose default is the one registered last
C40_Witness ==
    /\ last_call.op = "set_default"
    /\ last_call.raised
    /\ Len(registry.providers) = 2
    /\ registry.default = registry.providers[2]

====
